---- MODULE Spec2Model ----
(***************************************************************************)
(* tz-archiver-cli: the archival-admission pipeline (RateLimiter,          *)
(* ConcurrencyManager, WaybackArchiver.archive_cid, TokenProcessor,        *)
(* StateManager) and the continuous exploration loop (SpiderProcessor).    *)
(*                                                                         *)
(* Time is the wall clock of time.time(), in whole seconds.  The archive   *)
(* service (wayback_utils.WayBack) and the index service are outside the   *)
(* repository: save() either raises, returns no job id, or returns a job   *)
(* id and later delivers one completion notification on its own thread.    *)
(***************************************************************************)
EXTENDS Integers, Sequences, FiniteSets, TLC

\* ------------------------------------------------------------ bounds
MaxBatch == 2        \* longest list of tokens handed to process_tokens
MaxConcurrent == 1   \* ConcurrencyManager(max_concurrent)
MaxRequests == 1     \* RateLimiter(max_requests_per_minute)
MaxTime == 185       \* the clock stops advancing here
MaxOversleep == 0    \* how long time.sleep may overrun its argument
MaxCrashes == 1      \* process kills per behaviour
MaxSeed == 3         \* seeds 0..MaxSeed stand for the md5-derived seed
MaxIterations == 6   \* iterations of run_spider_mode's loop
MaxAttempts == 3     \* ids one process hands on over all its process_tokens calls
MaxCalls == 2        \* process_tokens calls of one process
MaxFetched == 1      \* longest list one wallet query returns
MaxRecords == 2      \* record_request() calls on a RateLimiter driven on its own
MaxPages == 3        \* pages the largest limit of a paginated query spans
MaxCycleCalls == 9   \* iterations of run_spider_mode's loop followed through a jump to the end of a cycle

\* ------------------------------------------------- program constants
WindowSeconds == 60
TimeoutSeconds == 120
PollSeconds == 1
FallbackTokens == 6000000
TokenSpaceCap == 6000000
MaxEmptyBatches == 5
RandomMax == 6000000
BatchSize == 10000
API_MAX == 10000
SpiderProcessorParams == 2
SpiderProcessorArgs == 1
WalletProcessorParams == 1
WalletProcessorArgs == 1

CIDS == {1, 2}
\* a token whose metadata carries no ipfs:// artifact URI
NoArtifact == 0
TokenUris == CIDS \cup {NoArtifact}
Statuses == {"success", "pending", "error", "other"}

VARIABLES
    now,             \* time.time()
    request_times,   \* RateLimiter.request_times
    current_count,   \* ConcurrencyManager.current_count
    pc,              \* where the main thread is
    cids,            \* process_tokens: the extracted ids of the batch
    idx,             \* process_tokens: position of the for loop in cids
    start_time,      \* acquire(): start_time
    wake,            \* time.sleep(): the time the sleeper may resume
    mwrite,          \* the main thread's file write in progress
    processed_cids,  \* AppState.processed_cids
    error_cids,      \* AppState.error_cids
    processed_file,  \* data/processed_cids.json
    errors_file,     \* data/errors_cids.json
    stats,           \* TokenProcessor.stats
    job,             \* per attempt: the submission and its completion thread
    hist,            \* per attempt: what has happened to it (observation only)
    committed,       \* ids whose save_processed_cid write completed (observation only)
    precrash,        \* committed, as it was at the last kill (observation only)
    resubmitted,     \* ids of precrash submitted after the kill (observation only)
    crashes,         \* process kills so far
    wfail,           \* attempts whose state-file write failed (observation only)
    sp_pc,           \* where run_spider_mode is
    sp_exit,         \* why run_spider_mode returned (observation only)
    walk,            \* SpiderProcessor: the walk parameters
    iteration,       \* run_spider_mode: iteration
    consecutive_empty_batches,  \* run_spider_mode: consecutive_empty_batches
    offset,          \* the last value _get_next_batch_offset returned
    spider_state,    \* AppState.spider_state
    spider_file,     \* data/spider_state.json
    load_exit,       \* how StateManager.load_state ended
    visited,         \* the offsets _get_next_batch_offset has returned (observation only)
    resume_next,     \* at the last kill: the cursor on disk, the position in memory, the last
                     \* offset returned, where the loop was (observation only)
    wallet,          \* process_wallet: the three fetched lists and its call of process_tokens
    batch,           \* the number of process_tokens calls so far
    base,            \* the ids handed on by the earlier process_tokens calls
    rate,            \* the last get_current_rate(): its value, when, after how many records (observation only)
    admissions,      \* the time of every record_request() so far (observation only)
    pages,           \* _fetch_paginated_tokens: its locals and what it returned
    cli              \* main(): the arguments, the environment, how far it got

vars == << now, request_times, current_count, pc, cids, idx, start_time, wake,
           mwrite, processed_cids, error_cids, processed_file, errors_file,
           stats, job, hist, committed, precrash, resubmitted, crashes, wfail,
           sp_pc, sp_exit, walk, iteration, consecutive_empty_batches, offset,
           spider_state, spider_file, load_exit, visited, resume_next,
           wallet, batch, base, rate, admissions, pages, cli >>

spiderVars == << sp_pc, sp_exit, walk, iteration, consecutive_empty_batches, offset,
                 spider_state, spider_file >>

sessionVars == << wallet, batch, base >>

probeVars == << rate, admissions, pages, cli >>

auxVars == << load_exit, visited, resume_next, sessionVars, probeVars >>

\* the attempt the main thread is at: attempts are numbered over the whole run
Cur == base + idx

\* ------------------------------------------------------ RateLimiter
RECURSIVE Cleanup(_, _)
\* _cleanup_old_requests: popleft while the oldest is strictly before the cutoff
Cleanup(times, t) ==
    IF times # << >> /\ Head(times) < t - WindowSeconds
    THEN Cleanup(Tail(times), t)
    ELSE times

\* wait_if_needed: the time to sleep, 0 when the call returns at once
WaitTime(times, t) ==
    LET cleaned == Cleanup(times, t)
    IN  IF Len(cleaned) >= MaxRequests
        THEN LET w == (Head(cleaned) + WindowSeconds) - t
             IN  IF w > 0 THEN w ELSE 0
        ELSE 0

\* record_request
Record(times, t) == Append(times, t)

\* a faulty variant: the length taken without the purge
CurrentRateUnpurged(times, t) == Len(times)

\* get_current_rate
CurrentRate(times, t) == Len(Cleanup(times, t))

\* ------------------------------------------------ ConcurrencyManager
\* a faulty variant: the capacity test off by one
SlotFreeOffByOne(count) == count <= MaxConcurrent

\* acquire(): the test made under the lock
SlotFree(count) == count < MaxConcurrent

\* a faulty variant: giving up one poll early
TimedOutEarly(t, start) == t - start > TimeoutSeconds - 2 * PollSeconds

\* a faulty variant: acquire() polling without a timeout
TimedOutNever(t, start) == FALSE

\* acquire(): the timeout test made after the lock is dropped
TimedOut(t, start) == t - start > TimeoutSeconds

\* release(): never below zero
Release(count) == IF count > 0 THEN count - 1 ELSE count

\* ------------------------------------------------------ StateManager
RECURSIVE Sorted(_)
\* sorted(list(cids))
Sorted(S) ==
    IF S = {} THEN << >>
    ELSE LET m == CHOOSE x \in S : \A y \in S : x <= y
         IN  << m >> \o Sorted(S \ {m})

\* a file as open(path, "w") leaves it until the dump is flushed: no valid JSON
FileTruncated == [kind |-> "corrupt", data |-> << >>]
FileMissing == [kind |-> "missing", data |-> << >>]

\* _save_cids_to_file: the content after a completed json.dump
FileOf(S) == [kind |-> "list", data |-> Sorted(S)]

\* json.dump and close on a file opened with "w": the bytes go to position 0
\* of whatever the file holds by then.  Another writer's longer list stays
\* behind the shorter one as trailing garbage (ids are of one length, so the
\* lists compare by their number of entries).
Flushed(f, S) ==
    IF Len(f.data) > Cardinality(S)
    THEN [kind |-> "corrupt", data |-> f.data]
    ELSE FileOf(S)

\* a variant of the in-memory add: the set rebuilt from the one id
AddedReplacing(S, cid) == {cid}

\* a variant of the in-memory add: symmetric difference (^=) for union (|=)
AddedBySymmetricDifference(S, cid) == IF cid \in S THEN S \ {cid} ELSE S \cup {cid}

\* state.processed_cids.add(cid) / state.error_cids.add(cid)
Added(S, cid) == S \cup {cid}

\* _load_cids_from_file: a missing or undecodable file yields set()
LoadCids(f) ==
    IF f.kind = "list" THEN {f.data[i] : i \in DOMAIN f.data} ELSE {}

\* _load_cids_from_file lets through what its except clause does not name:
\* UnicodeDecodeError from bytes that are not UTF-8, TypeError from set() over
\* a list that holds a list or an object
LoadCidsRaises(f) == f.kind \in {"binary", "unhashable"}

\* what a completion-set file may hold when load_state() runs: nothing, text
\* that is no JSON, bytes that are no text, JSON that is no list, a list with
\* an unhashable entry, a list of ids
CidsFiles ==
    {FileMissing, FileTruncated}
    \cup {[kind |-> k, data |-> << >>] : k \in {"binary", "other", "unhashable"}}
    \cup {FileOf(S) : S \in SUBSET CIDS}

\* ---------------------------------------------------- TokenProcessor
RECURSIVE ExtractIpfsCids(_)
\* _extract_ipfs_cids: the ids of the tokens that carry an ipfs:// artifact URI
ExtractIpfsCids(tokens) ==
    IF tokens = << >> THEN << >>
    ELSE IF Head(tokens) # NoArtifact
         THEN << Head(tokens) >> \o ExtractIpfsCids(Tail(tokens))
         ELSE ExtractIpfsCids(Tail(tokens))

\* a faulty variant: total_tokens left at its default
NewStatsWithoutTotal(n) ==
    [total_tokens |-> 0, processed_cids |-> 0, skipped_cids |-> 0,
     successful_archives |-> 0, failed_archives |-> 0, already_archived |-> 0]

\* ProcessingStats() with total_tokens set
NewStats(n) ==
    [total_tokens |-> n, processed_cids |-> 0, skipped_cids |-> 0,
     successful_archives |-> 0, failed_archives |-> 0, already_archived |-> 0]

Bump(s, f) == [s EXCEPT ![f] = @ + 1]

Batches == UNION {[1..n -> TokenUris] : n \in 0..MaxBatch}

Attempts == 1..MaxAttempts
\* cid and batch: the id the submission is for, the process_tokens call it was
\* made in; status: status.status while on_save_end runs
NoJob == [st |-> "none", w |-> "none", opened |-> FALSE, snap |-> {}, cid |-> NoArtifact,
          batch |-> 0, status |-> "none"]
\* the main thread has no state file open
NoWrite == [w |-> "none", snap |-> {}]
NoHist == [recorded |-> 0, acquired |-> 0, released |-> 0, saves |-> 0,
           callbacks |-> 0, timedout |-> FALSE, elapsed |-> 0, freed |-> FALSE,
           saved_at |-> 0, raised |-> FALSE, cb_raised |-> FALSE,
           check_failed |-> FALSE]

\* a variant: pending not counted as success
ResultSuccessStrict(status) == status = "success"

\* on_save_end: success, and pending counted as success
ResultSuccess(status) == status = "success" \/ status = "pending"

\* --------------------------------------------------- SpiderProcessor
\* Python's None in a numeric field
None == -1

\* SpiderProcessor.prime_steps
PrimeSteps == << 7919, 12911, 15073, 18443, 20399, 22447, 25013, 27697,
                 30089, 32609, 35171, 37549, 40009, 42589, 45121, 47737 >>

\* SpiderState(): the defaults
NewSpiderState ==
    [current_position |-> None, start_position |-> None, step_size |-> None,
     total_token_space |-> None, tokens_visited |-> 0, seed_data |-> None]

\* a variant: the position is read under a key the file does not have
LoadSpiderStateWithoutPosition(f) ==
    IF f.kind = "record" THEN [f.data EXCEPT !.current_position = None] ELSE NewSpiderState

\* StateManager._load_spider_state: a missing or undecodable file yields SpiderState()
LoadSpiderState(f) == IF f.kind = "record" THEN f.data ELSE NewSpiderState

SpiderFileMissing == [kind |-> "missing", data |-> NewSpiderState]

\* StateManager._load_spider_state lets through UnicodeDecodeError and the
\* AttributeError of data.get on JSON that is no object
LoadSpiderRaises(f) == f.kind \in {"binary", "nonobject"}

\* StateManager._save_spider_state: the file after the write, written or not
SpiderFileAfter(f, st, written) == IF written THEN [kind |-> "record", data |-> st] ELSE f

\* prime_steps.index(step_size), then the next entry, wrapping
NextPrimeStep(step) ==
    LET k == CHOOSE j \in DOMAIN PrimeSteps : PrimeSteps[j] = step
    IN  PrimeSteps[(k % Len(PrimeSteps)) + 1]

\* _initialize_walk_parameters, fresh: block_count() gave bc (0 for None or 0),
\* the md5 of the seed data gave seed
FreshWalk(bc, seed) ==
    LET total_tokens == IF bc = 0 THEN FallbackTokens ELSE bc
        total == IF total_tokens < TokenSpaceCap THEN total_tokens ELSE TokenSpaceCap
    IN  [total_token_space |-> total,
         start_position |-> seed % total,
         current_position |-> seed % total,
         step_size |-> PrimeSteps[(seed % Len(PrimeSteps)) + 1],
         tokens_visited |-> 0,
         seed_data |-> seed]

\* a variant: the walk advances by the batch size, not by its prime step
SteppedByBatch(w) ==
    [w EXCEPT !.current_position = (w.current_position + BatchSize) % w.total_token_space,
              !.tokens_visited = w.tokens_visited + 1]

\* _get_next_batch_offset: the step of the walk, as it is saved
Stepped(w) ==
    [w EXCEPT !.current_position = (w.current_position + w.step_size) % w.total_token_space,
              !.tokens_visited = w.tokens_visited + 1]

\* _get_next_batch_offset: after the save, a completed cycle resets the count
\* and moves to the next prime step
AfterCycleCheck(w) ==
    IF w.current_position = w.start_position /\ w.tokens_visited > 1
    THEN [w EXCEPT !.tokens_visited = 0, !.step_size = NextPrimeStep(w.step_size)]
    ELSE w

\* run_spider_mode: the jump after too many empty batches
Jumped(w) ==
    [w EXCEPT !.current_position =
        (w.current_position + (w.total_token_space \div 4)) % w.total_token_space]

BlockCounts == {0, 5, 12}
Seeds == 0..MaxSeed

\* what the cursor file may hold when load_state() runs
SpiderFiles ==
    {[kind |-> k, data |-> NewSpiderState] :
        k \in {"missing", "corrupt", "binary", "nonobject"}}
    \cup {[kind |-> "record", data |-> FreshWalk(bc, seed)] :
             bc \in BlockCounts, seed \in Seeds}

\* SpiderProcessor.__init__, before run_spider_mode is entered
SpiderIdle ==
    /\ sp_pc = "idle"
    /\ sp_exit = "none"
    /\ walk = NewSpiderState
    /\ iteration = 0
    /\ consecutive_empty_batches = 0
    /\ offset = None
    /\ spider_state = LoadSpiderState(SpiderFileMissing)
    /\ spider_file = SpiderFileMissing

\* no kill so far
NoResume == [cursor |-> NewSpiderState, next |-> None, last |-> None, at |-> "none"]

\* load_state() returned without incident; nothing observed yet
\* process_tokens is in its first call, and was not called by process_wallet
NoWallet == [mints |-> << >>, balances |-> << >>, contract_tokens |-> << >>,
             unique_tokens |-> << >>, calls |-> 0]

\* get_current_rate() has not been called
NoRate == [value |-> 0, at |-> 0, n |-> 0]

\* _fetch_paginated_tokens is not being called
NoPages == [pc |-> "idle", limit |-> 0, remaining |-> 0, current_offset |-> 0,
            batch_limit |-> 0, results |-> 0, requests |-> 0, last |-> "none",
            last_len |-> 0, returned |-> "none"]

\* main() is past its dispatch; what it was started with is not followed
NoCli == [pc |-> "running", wallet |-> FALSE, credentials |-> TRUE, valid |-> TRUE,
          exit |-> "none"]

ProbeIdle ==
    /\ rate = NoRate
    /\ admissions = << >>
    /\ pages = NoPages
    /\ cli = NoCli

SessionIdle ==
    /\ wallet = NoWallet
    /\ batch = 1
    /\ base = 0
    /\ ProbeIdle

AuxIdle ==
    /\ load_exit = "returned"
    /\ visited = {}
    /\ resume_next = NoResume
    /\ SessionIdle

\* ------------------------------------------------------------- Init
\* a fresh install: no state file yet, load_state() yields empty sets, and
\* process_tokens(tokens, state) has just reset the stats and extracted the ids
Start(tokens) ==
    /\ cids = ExtractIpfsCids(tokens)
    /\ stats = NewStats(Len(tokens))
    /\ idx = 1
    /\ pc = "loop"
    /\ now = 0
    /\ request_times = << >>
    /\ current_count = 0
    /\ start_time = 0
    /\ wake = 0
    /\ mwrite = NoWrite
    /\ job = [i \in Attempts |-> NoJob]
    /\ hist = [i \in Attempts |-> NoHist]

Init ==
    /\ \E tokens \in Batches : Start(tokens)
    /\ processed_file = FileMissing
    /\ errors_file = FileMissing
    /\ processed_cids = LoadCids(FileMissing)
    /\ error_cids = LoadCids(FileMissing)
    /\ committed = {}
    /\ precrash = {}
    /\ resubmitted = {}
    /\ crashes = 0
    /\ wfail = {}
    /\ SpiderIdle
    /\ AuxIdle

mainVars == << pc, cids, idx, start_time, wake, mwrite >>
fileVars == << processed_file, errors_file >>
setVars == << processed_cids, error_cids >>
obsVars == << committed, precrash, resubmitted, crashes, wfail >>

\* a variant: an id that has errored counts as dealt with
IsProcessedOrError(cid) == cid \in processed_cids \cup error_cids

\* StateManager.is_processed
IsProcessed(cid) == cid \in processed_cids

\* ------------------------------------------- process_tokens: the loop
\* for cid in cids: an id already in state.processed_cids is skipped
LoopSkip ==
    /\ UNCHANGED spiderVars
    /\ UNCHANGED auxVars
    /\ pc = "loop" /\ idx <= Len(cids)
    /\ IsProcessed(cids[idx])
    /\ stats' = Bump(stats, "skipped_cids")
    /\ idx' = idx + 1
    /\ UNCHANGED << now, request_times, current_count, pc, cids, start_time, wake,
                    mwrite, job, hist >>
    /\ UNCHANGED << fileVars, setVars, obsVars >>

\* any other id is counted and handed to _archive_cid_with_rate_limit
LoopProcess ==
    /\ UNCHANGED spiderVars
    /\ UNCHANGED auxVars
    /\ pc = "loop" /\ idx <= Len(cids)
    /\ ~IsProcessed(cids[idx])
    /\ stats' = Bump(stats, "processed_cids")
    /\ pc' = "precheck"
    /\ UNCHANGED << now, request_times, current_count, cids, idx, start_time, wake,
                    mwrite, job, hist >>
    /\ UNCHANGED << fileVars, setVars, obsVars >>

\* return self.stats
LoopDone ==
    /\ UNCHANGED spiderVars
    /\ UNCHANGED auxVars
    /\ pc = "loop" /\ idx > Len(cids)
    /\ pc' = "done"
    /\ UNCHANGED << now, request_times, current_count, cids, idx, start_time, wake,
                    mwrite, job, hist, stats >>
    /\ UNCHANGED << fileVars, setVars, obsVars >>

\* ------------------------------------- _archive_cid_with_rate_limit
\* is_already_archived(cid) is True: count it, save_processed_cid, return.
\* open(file, "w") either raises (the save returns False) or truncates the file.
\* times is what the step leaves in rate_limiter.request_times, h what is
\* known of the attempts after the check.
AlreadyArchivedOf(times, h) ==
    /\ hist' = h
    /\ UNCHANGED spiderVars
    /\ UNCHANGED auxVars
    /\ pc = "precheck"
    /\ stats' = Bump(stats, "already_archived")
    /\ processed_cids' = Added(processed_cids, cids[idx])
    /\ request_times' = times
    /\ \E opened \in BOOLEAN :
         IF opened
         THEN /\ processed_file' = FileTruncated
              /\ mwrite' = [w |-> "processed", snap |-> processed_cids']
              /\ pc' = "dump"
              /\ idx' = idx
              /\ wfail' = wfail
         ELSE /\ processed_file' = processed_file
              /\ mwrite' = NoWrite
              /\ pc' = "loop"
              /\ idx' = idx + 1
              /\ wfail' = wfail \cup {Cur}
    /\ UNCHANGED << now, current_count, cids, start_time, wake,
                    job, error_cids, errors_file >>
    /\ UNCHANGED << committed, precrash, resubmitted, crashes >>

AlreadyArchivedWith(times) == AlreadyArchivedOf(times, hist)

\* a faulty variant: the short-circuit charged to the rate limiter
AlreadyArchivedCharged == AlreadyArchivedWith(Record(request_times, now))

AlreadyArchived == AlreadyArchivedWith(request_times)

\* is_already_archived(cid) is False (not indexed, or the check failed):
\* rate_limiter.wait_if_needed() up to its time.sleep(wait_time)
WaitIfNeededAfter(h) ==
    /\ hist' = h
    /\ UNCHANGED spiderVars
    /\ UNCHANGED auxVars
    /\ pc = "precheck"
    /\ request_times' = Cleanup(request_times, now)
    /\ IF WaitTime(request_times, now) > 0
       THEN /\ wake' = now + WaitTime(request_times, now)
            /\ pc' = "rate_sleep"
       ELSE /\ wake' = wake
            /\ pc' = "record"
    /\ UNCHANGED << now, current_count, cids, idx, start_time, mwrite, job, stats >>
    /\ UNCHANGED << fileVars, setVars, obsVars >>

WaitIfNeeded == WaitIfNeededAfter(hist)

\* wait_if_needed() after its sleep: clean up again, return
RateWake ==
    /\ UNCHANGED spiderVars
    /\ UNCHANGED auxVars
    /\ pc = "rate_sleep" /\ now >= wake
    /\ request_times' = Cleanup(request_times, now)
    /\ pc' = "record"
    /\ UNCHANGED << now, current_count, cids, idx, start_time, wake, mwrite, job,
                    hist, stats >>
    /\ UNCHANGED << fileVars, setVars, obsVars >>

\* get_current_rate(), record_request(), then archive_cid() up to acquire()'s
\* start_time = time.time()
RecordRequest ==
    /\ UNCHANGED spiderVars
    /\ UNCHANGED auxVars
    /\ pc = "record"
    /\ request_times' = Record(Cleanup(request_times, now), now)
    /\ hist' = [hist EXCEPT ![Cur].recorded = @ + 1]
    /\ start_time' = now
    /\ pc' = "acquire_lock"
    /\ UNCHANGED << now, current_count, cids, idx, wake, mwrite, job, stats >>
    /\ UNCHANGED << fileVars, setVars, obsVars >>

\* time.sleep(): the clock advances while the main thread sleeps
SleepTick ==
    /\ UNCHANGED spiderVars
    /\ UNCHANGED auxVars
    /\ pc \in {"rate_sleep", "acquire_sleep"}
    /\ now < MaxTime /\ now < wake + MaxOversleep
    /\ now' = now + 1
    /\ UNCHANGED << request_times, current_count, mainVars, job, hist, stats >>
    /\ UNCHANGED << fileVars, setVars, obsVars >>

\* ---------------------------- _create_archive_callback on the main thread
\* on_archive_complete(result) with result.success False, as archive_cid calls
\* it itself (slot timeout, submission raising): save_error_cid up to the
\* open of the file.  h is hist after what the caller did.
MainCallbackFail(h) ==
    /\ hist' = [h EXCEPT ![Cur].callbacks = @ + 1]
    /\ error_cids' = Added(error_cids, cids[idx])
    /\ \E opened \in BOOLEAN :
         IF opened
         THEN /\ errors_file' = FileTruncated
              /\ mwrite' = [w |-> "errors", snap |-> error_cids']
              /\ pc' = "dump"
              /\ idx' = idx
              /\ stats' = stats
              /\ wfail' = wfail
         ELSE /\ errors_file' = errors_file
              /\ mwrite' = NoWrite
              /\ pc' = "loop"
              /\ idx' = idx + 1
              /\ stats' = Bump(stats, "failed_archives")
              /\ wfail' = wfail \cup {Cur}

\* the main thread's json.dump and close: sorted(list(cids)) is the set as it
\* is at some instant after the open (S), and the write lands or fails; the
\* except clause of _save_cids_to_file turns the IOError into False (catches),
\* and the rest of the callback follows
MainDumpCatching(catches) ==
    /\ UNCHANGED spiderVars
    /\ UNCHANGED auxVars
    /\ pc = "dump"
    /\ \E flushed \in BOOLEAN :
         /\ wfail' = IF flushed THEN wfail ELSE wfail \cup {Cur}
         /\ IF mwrite.w = "processed"
            THEN /\ \E S \in {mwrite.snap, processed_cids} :
                      processed_file' =
                         IF flushed THEN Flushed(processed_file, S) ELSE processed_file
                 /\ committed' =
                       IF flushed THEN committed \cup {cids[idx]} ELSE committed
                 /\ UNCHANGED << errors_file, stats >>
            ELSE /\ \E S \in {mwrite.snap, error_cids} :
                      errors_file' =
                         IF flushed THEN Flushed(errors_file, S) ELSE errors_file
                 /\ stats' = Bump(stats, "failed_archives")
                 /\ UNCHANGED << processed_file, committed >>
         /\ pc' = IF flushed \/ catches THEN "loop" ELSE "raised"
    /\ mwrite' = NoWrite
    /\ idx' = idx + 1
    /\ UNCHANGED << now, request_times, current_count, cids, start_time, wake,
                    job, hist, precrash, resubmitted, crashes >>
    /\ UNCHANGED setVars

\* a variant: the IOError of the write is not caught
MainDumpUncaught == MainDumpCatching(FALSE)

MainDump == MainDumpCatching(TRUE)

\* ------------------------------------- archive_cid: acquire(), save()
\* acquire(): with self._lock: take a slot if one is free
AcquireLock ==
    /\ UNCHANGED spiderVars
    /\ UNCHANGED auxVars
    /\ pc = "acquire_lock"
    /\ IF SlotFree(current_count)
       THEN /\ current_count' = current_count + 1
            /\ hist' = [hist EXCEPT ![Cur].acquired = @ + 1]
            /\ pc' = "submit"
       ELSE /\ pc' = "acquire_timeout"
            /\ UNCHANGED << current_count, hist >>
    /\ UNCHANGED << now, request_times, cids, idx, start_time, wake, mwrite, job, stats >>
    /\ UNCHANGED << fileVars, setVars, obsVars >>

\* acquire(): no slot was free: give up after the timeout, else time.sleep(1).
\* On False archive_cid calls on_complete with a failed result and returns.
AcquireTimeoutCheck ==
    /\ UNCHANGED spiderVars
    /\ UNCHANGED auxVars
    /\ pc = "acquire_timeout"
    /\ IF TimedOut(now, start_time)
       THEN /\ MainCallbackFail([hist EXCEPT ![Cur].timedout = TRUE,
                                             ![Cur].elapsed = now - start_time])
            /\ wake' = wake
       ELSE /\ wake' = now + PollSeconds
            /\ pc' = "acquire_sleep"
            /\ UNCHANGED << hist, error_cids, errors_file, mwrite, idx, stats, wfail >>
    /\ UNCHANGED << now, request_times, current_count, cids, start_time, job,
                    processed_cids, processed_file >>
    /\ UNCHANGED << committed, precrash, resubmitted, crashes >>

\* acquire(): the sleep is over, loop
AcquireWake ==
    /\ UNCHANGED spiderVars
    /\ UNCHANGED auxVars
    /\ pc = "acquire_sleep" /\ now >= wake
    /\ pc' = "acquire_lock"
    /\ UNCHANGED << now, request_times, current_count, cids, idx, start_time, wake,
                    mwrite, job, hist, stats >>
    /\ UNCHANGED << fileVars, setVars, obsVars >>

\* a faulty variant: archive_cid releasing after every save(), job id or not
SubmitReleasesAlways(outcome) == TRUE

\* archive_cid releases the slot itself when save() gave no job id or raised
SubmitReleases(outcome) == outcome \in {"nojob", "raise"}

\* a faulty variant: the exception of save() logged and dropped
SubmitFailsNever(outcome) == FALSE

\* archive_cid calls on_complete with a failed result when save() raised
SubmitFails(outcome) == outcome = "raise"

\* wayback.save(url, ..., on_result=on_save_end) and what follows it
Submit ==
    /\ UNCHANGED spiderVars
    /\ UNCHANGED auxVars
    /\ pc = "submit"
    /\ resubmitted' = IF cids[idx] \in precrash
                      THEN resubmitted \cup {cids[idx]} ELSE resubmitted
    /\ \E outcome \in {"job", "nojob", "raise"} :
         LET h == IF SubmitReleases(outcome)
                  THEN [hist EXCEPT ![Cur].saves = @ + 1, ![Cur].saved_at = now,
                                    ![Cur].raised = (outcome = "raise"),
                                    ![Cur].released = @ + 1]
                  ELSE [hist EXCEPT ![Cur].saves = @ + 1, ![Cur].saved_at = now,
                                    ![Cur].raised = (outcome = "raise")]
         IN
         /\ current_count' = IF SubmitReleases(outcome)
                             THEN Release(current_count) ELSE current_count
         /\ CASE outcome = "job" ->
                  \* a job id: the completion thread will call on_save_end
                  /\ job' = [job EXCEPT ![Cur].st = "pending", ![Cur].cid = cids[idx],
                                         ![Cur].batch = batch]
                  /\ hist' = h
                  /\ idx' = idx + 1
                  /\ pc' = "loop"
                  /\ UNCHANGED << error_cids, errors_file, mwrite, stats, wfail >>
             [] outcome # "job" /\ ~SubmitFails(outcome) ->
                  \* save_data.job_id is None: log, release, return
                  /\ hist' = h
                  /\ idx' = idx + 1
                  /\ pc' = "loop"
                  /\ UNCHANGED << job, error_cids, errors_file, mwrite, stats, wfail >>
             [] outcome # "job" /\ SubmitFails(outcome) ->
                  \* except Exception: release, then on_complete with a failed result
                  /\ MainCallbackFail(h)
                  /\ UNCHANGED job
    /\ UNCHANGED << now, request_times, cids, start_time, wake, processed_cids,
                    processed_file, committed, precrash, crashes >>

\* ------------------------------ on_save_end on the completion thread
\* the notification arrives: build the result, call on_complete, which adds
\* the id to its set and opens the file
Notify(i) ==
    /\ UNCHANGED spiderVars
    /\ UNCHANGED auxVars
    /\ job[i].st = "pending"
    /\ hist' = [hist EXCEPT ![i].callbacks = @ + 1]
    /\ \E status \in Statuses, opened \in BOOLEAN :
         IF ResultSuccess(status)
         THEN /\ processed_cids' = Added(processed_cids, job[i].cid)
              /\ processed_file' = IF opened THEN FileTruncated ELSE processed_file
              /\ job' = [job EXCEPT ![i].st = "writing", ![i].w = "processed",
                                     ![i].opened = opened, ![i].snap = processed_cids',
                                     ![i].status = status]
              /\ wfail' = IF opened THEN wfail ELSE wfail \cup {i}
              /\ UNCHANGED << error_cids, errors_file >>
         ELSE /\ error_cids' = Added(error_cids, job[i].cid)
              /\ errors_file' = IF opened THEN FileTruncated ELSE errors_file
              /\ job' = [job EXCEPT ![i].st = "writing", ![i].w = "errors",
                                     ![i].opened = opened, ![i].snap = error_cids',
                                     ![i].status = status]
              /\ wfail' = IF opened THEN wfail ELSE wfail \cup {i}
              /\ UNCHANGED << processed_cids, processed_file >>
    /\ UNCHANGED << now, request_times, current_count, mainVars, stats >>
    /\ UNCHANGED << committed, precrash, resubmitted, crashes >>

\* the main thread is inside acquire()
Waiting == pc \in {"acquire_lock", "acquire_timeout", "acquire_sleep"}

\* the dump and close, the counter of on_archive_complete, and the release of
\* on_save_end's finally
CallbackFinish(i) ==
    /\ UNCHANGED spiderVars
    /\ UNCHANGED auxVars
    /\ job[i].st = "writing"
    /\ \E flushed \in BOOLEAN :
         /\ wfail' = IF job[i].opened /\ ~flushed THEN wfail \cup {i} ELSE wfail
         /\ IF job[i].w = "processed"
            THEN /\ \E S \in {job[i].snap, processed_cids} :
                      processed_file' =
                         IF job[i].opened /\ flushed
                         THEN Flushed(processed_file, S) ELSE processed_file
                 /\ committed' =
                       IF job[i].opened /\ flushed
                       THEN committed \cup {job[i].cid} ELSE committed
                 /\ stats' = Bump(stats, "successful_archives")
                 /\ UNCHANGED errors_file
            ELSE /\ \E S \in {job[i].snap, error_cids} :
                      errors_file' =
                         IF job[i].opened /\ flushed
                         THEN Flushed(errors_file, S) ELSE errors_file
                 /\ stats' = Bump(stats, "failed_archives")
                 /\ UNCHANGED << processed_file, committed >>
    /\ current_count' = Release(current_count)
    /\ hist' = IF Waiting /\ ~TimedOut(now, start_time)
               THEN [hist EXCEPT ![i].released = @ + 1, ![Cur].freed = TRUE]
               ELSE [hist EXCEPT ![i].released = @ + 1]
    /\ job' = [job EXCEPT ![i].st = "done", ![i].status = "none"]
    /\ UNCHANGED << now, request_times, mainVars, precrash, resubmitted, crashes >>
    /\ UNCHANGED setVars

\* --------------------------------------------------- kill and restart
\* The process is killed: memory and the completion threads are gone, the files
\* stay as they are.  It is started again: load_state(), fresh RateLimiter and
\* ConcurrencyManager, process_tokens on a new list.  Nothing of the old
\* process's timestamps survives, so the clock is counted from the restart.
KillAndResume ==
    /\ UNCHANGED spiderVars
    /\ UNCHANGED << load_exit, visited, resume_next, wallet, probeVars >>
    /\ batch' = 1
    /\ base' = 0
    /\ crashes < MaxCrashes
    /\ crashes' = crashes + 1
    /\ precrash' = committed
    /\ resubmitted' = {}
    /\ processed_cids' = LoadCids(processed_file)
    /\ error_cids' = LoadCids(errors_file)
    /\ \E tokens \in Batches :
         /\ cids' = ExtractIpfsCids(tokens)
         /\ stats' = NewStats(Len(tokens))
    /\ idx' = 1
    /\ pc' = "loop"
    /\ now' = 0
    /\ request_times' = << >>
    /\ current_count' = 0
    /\ start_time' = 0
    /\ wake' = 0
    /\ mwrite' = NoWrite
    /\ job' = [i \in Attempts |-> NoJob]
    /\ hist' = [i \in Attempts |-> NoHist]
    /\ wfail' = {}
    /\ UNCHANGED << fileVars, committed >>

Next ==
    \/ LoopSkip
    \/ LoopProcess
    \/ LoopDone
    \/ AlreadyArchived
    \/ WaitIfNeeded
    \/ RateWake
    \/ RecordRequest
    \/ SleepTick
    \/ MainDump
    \/ AcquireLock
    \/ AcquireTimeoutCheck
    \/ AcquireWake
    \/ Submit
    \/ \E i \in Attempts : Notify(i)
    \/ \E i \in Attempts : CallbackFinish(i)

\* one run of process_tokens
Spec == Init /\ [][Next]_vars

NextCrash ==
    \/ Next
    \/ KillAndResume

\* runs of process_tokens with the process killed and restarted in between
SpecCrash == Init /\ [][NextCrash]_vars

\* ---------------------------------------------------- run_spider_mode
pipelineVars == << now, request_times, current_count, pc, cids, idx, start_time, wake,
                   mwrite, processed_cids, error_cids, processed_file, errors_file,
                   stats, job, hist, committed, precrash, resubmitted, crashes, wfail >>

\* run_spider_mode up to its loop: _initialize_walk_parameters resumes from
\* state.spider_state when it holds a position, else starts a fresh walk and
\* saves it
SpiderStart ==
    /\ sp_pc = "start"
    /\ IF spider_state.current_position # None
       THEN /\ walk' = spider_state
            /\ UNCHANGED << spider_state, spider_file >>
       ELSE \E bc \in BlockCounts, seed \in Seeds, written \in BOOLEAN :
              /\ walk' = FreshWalk(bc, seed)
              /\ spider_state' = FreshWalk(bc, seed)
              /\ spider_file' = SpiderFileAfter(spider_file, FreshWalk(bc, seed), written)
    /\ sp_pc' = "iterate"
    /\ UNCHANGED << sp_exit, iteration, consecutive_empty_batches, offset >>
    /\ UNCHANGED pipelineVars
    /\ UNCHANGED auxVars

\* _get_next_batch_offset on the walk w: return the position, step, save,
\* then check for a completed cycle
TakeStep(w) ==
    /\ offset' = w.current_position
    /\ visited' = visited \cup {w.current_position}
    /\ walk' = AfterCycleCheck(Stepped(w))
    /\ spider_state' = Stepped(w)
    /\ \E written \in BOOLEAN :
         spider_file' = SpiderFileAfter(spider_file, Stepped(w), written)

\* the loop head and its call of _get_next_batch_offset, in a run of at most n
\* iterations
GetNextBatchOffsetWithin(n) ==
    /\ sp_pc = "iterate"
    /\ iteration < n
    /\ iteration' = iteration + 1
    /\ TakeStep(walk)
    /\ sp_pc' = "fetch"
    /\ UNCHANGED << sp_exit, consecutive_empty_batches >>
    /\ UNCHANGED pipelineVars
    /\ UNCHANGED << load_exit, resume_next, sessionVars, probeVars >>

GetNextBatchOffset == GetNextBatchOffsetWithin(MaxIterations)

\* tokens(batch_size, offset) gave None or nothing: count it, jump after
\* max_empty_batches in a row, sleep, continue
FetchEmpty ==
    /\ sp_pc = "fetch"
    /\ IF consecutive_empty_batches + 1 >= MaxEmptyBatches
       THEN /\ walk' = Jumped(walk)
            /\ consecutive_empty_batches' = 0
            /\ spider_state' = Jumped(walk)
            /\ \E written \in BOOLEAN :
                 spider_file' = SpiderFileAfter(spider_file, Jumped(walk), written)
       ELSE /\ consecutive_empty_batches' = consecutive_empty_batches + 1
            /\ UNCHANGED << walk, spider_state, spider_file >>
    /\ sp_pc' = "iterate"
    /\ UNCHANGED << sp_exit, iteration, offset >>
    /\ UNCHANGED pipelineVars
    /\ UNCHANGED auxVars

\* tokens(batch_size, offset) gave tokens: process_tokens is called
FetchTokens ==
    /\ sp_pc = "fetch"
    /\ consecutive_empty_batches' = 0
    /\ sp_pc' = "process"
    /\ UNCHANGED << sp_exit, walk, iteration, offset, spider_state, spider_file >>
    /\ UNCHANGED pipelineVars
    /\ UNCHANGED auxVars

\* process_tokens returned (Spec is its model): log, sleep, next iteration
ProcessReturns ==
    /\ sp_pc = "process"
    /\ sp_pc' = "iterate"
    /\ UNCHANGED << sp_exit, walk, iteration, consecutive_empty_batches, offset,
                    spider_state, spider_file >>
    /\ UNCHANGED pipelineVars
    /\ UNCHANGED auxVars

\* process_tokens raised (a token whose artifactUri is no string has no
\* startswith): the except Exception around the while loop logs, sleeps, and
\* run_spider_mode returns
ProcessRaises ==
    /\ sp_pc = "process"
    /\ sp_pc' = "returned"
    /\ sp_exit' = "exception"
    /\ UNCHANGED << walk, iteration, consecutive_empty_batches, offset,
                    spider_state, spider_file >>
    /\ UNCHANGED pipelineVars
    /\ UNCHANGED auxVars

\* KeyboardInterrupt inside the loop: logged, run_spider_mode returns
Interrupt ==
    /\ sp_pc \in {"iterate", "fetch", "process"}
    /\ sp_pc' = "returned"
    /\ sp_exit' = "interrupt"
    /\ UNCHANGED << walk, iteration, consecutive_empty_batches, offset,
                    spider_state, spider_file >>
    /\ UNCHANGED pipelineVars
    /\ UNCHANGED auxVars

\* main.run_spider_mode has loaded the state of a fresh install
InitSpider ==
    /\ Start(<< >>)
    /\ processed_file = FileMissing
    /\ errors_file = FileMissing
    /\ processed_cids = LoadCids(FileMissing)
    /\ error_cids = LoadCids(FileMissing)
    /\ committed = {}
    /\ precrash = {}
    /\ resubmitted = {}
    /\ crashes = 0
    /\ wfail = {}
    /\ sp_pc = "start"
    /\ sp_exit = "none"
    /\ walk = NewSpiderState
    /\ iteration = 0
    /\ consecutive_empty_batches = 0
    /\ offset = None
    /\ spider_state = LoadSpiderState(SpiderFileMissing)
    /\ spider_file = SpiderFileMissing
    /\ AuxIdle

NextSpider ==
    \/ SpiderStart
    \/ GetNextBatchOffset
    \/ FetchEmpty
    \/ FetchTokens
    \/ ProcessReturns
    \/ ProcessRaises
    \/ Interrupt

\* the continuous exploration mode
SpecSpider == InitSpider /\ [][NextSpider]_vars

\* The process is killed inside the loop and started again: load_state(), a new
\* SpiderProcessor, run_spider_mode.  A kill that lands inside a save of the
\* cursor (the one of the call under way) leaves the file truncated.
KillSpider ==
    /\ sp_pc \in {"iterate", "fetch", "process"}
    /\ crashes < MaxCrashes
    /\ crashes' = crashes + 1
    /\ \E torn \in BOOLEAN :
         /\ torn => \/ sp_pc = "iterate"
                    \/ sp_pc = "fetch" /\ consecutive_empty_batches + 1 >= MaxEmptyBatches
         /\ spider_file' = IF torn THEN [kind |-> "corrupt", data |-> NewSpiderState]
                           ELSE spider_file
    /\ resume_next' = [cursor |-> IF spider_file'.kind = "record"
                                  THEN spider_file'.data ELSE NewSpiderState,
                       next |-> walk.current_position,
                       last |-> offset, at |-> sp_pc]
    /\ spider_state' = LoadSpiderState(spider_file')
    /\ walk' = NewSpiderState
    /\ sp_pc' = "start"
    /\ sp_exit' = "none"
    /\ iteration' = 0
    /\ consecutive_empty_batches' = 0
    /\ offset' = None
    /\ visited' = {}
    /\ UNCHANGED << now, request_times, current_count, mainVars, stats, job, hist >>
    /\ UNCHANGED << fileVars, setVars, committed, precrash, resubmitted, wfail,
                    load_exit, sessionVars, probeVars >>

NextSpiderCrash ==
    \/ NextSpider
    \/ KillSpider

\* the continuous exploration mode, killed and started again
SpecSpiderCrash == InitSpider /\ [][NextSpiderCrash]_vars

\* ------------------------------------------- _get_next_batch_offset
\* the token spaces small enough for the walk to be followed through all its
\* cycles
WalkBlockCounts == BlockCounts \ {0}

\* random.randint(0, 6_000_000): both ends included
RandomOffsets == {0, RandomMax - 1, RandomMax}

\* _get_next_batch_offset called on its own, time after time.  Without a
\* position it runs _initialize_walk_parameters first: resume from the loaded
\* cursor, or a fresh walk, or, the initialization raising after the token
\* space is set (hashlib.md5 can), the random fallback.
NextBatchOffset ==
    /\ sp_pc = "idle"
    /\ \/ /\ walk.current_position # None
          /\ TakeStep(walk)
       \/ /\ walk.current_position = None
          /\ spider_state.current_position # None
          /\ TakeStep(spider_state)
       \/ /\ walk.current_position = None
          /\ spider_state.current_position = None
          /\ \E bc \in WalkBlockCounts, seed \in Seeds :
               \/ TakeStep(FreshWalk(bc, seed))
               \/ /\ offset' \in RandomOffsets
                  /\ visited' = visited \cup {offset'}
                  /\ walk' = [walk EXCEPT
                        !.total_token_space = FreshWalk(bc, seed).total_token_space,
                        !.seed_data = seed]
                  /\ UNCHANGED << spider_state, spider_file >>
    /\ UNCHANGED << sp_pc, sp_exit, iteration, consecutive_empty_batches >>
    /\ UNCHANGED << load_exit, resume_next, sessionVars, probeVars >>
    /\ UNCHANGED pipelineVars

\* a SpiderProcessor as constructed, over the state load_state() returned from
\* no cursor file or from one a fresh walk had saved
InitWalk ==
    /\ Start(<< >>)
    /\ processed_file = FileMissing
    /\ errors_file = FileMissing
    /\ processed_cids = LoadCids(FileMissing)
    /\ error_cids = LoadCids(FileMissing)
    /\ committed = {}
    /\ precrash = {}
    /\ resubmitted = {}
    /\ crashes = 0
    /\ wfail = {}
    /\ sp_pc = "idle"
    /\ sp_exit = "none"
    /\ walk = NewSpiderState
    /\ iteration = 0
    /\ consecutive_empty_batches = 0
    /\ offset = None
    /\ spider_file \in {SpiderFileMissing} \cup
          {[kind |-> "record", data |-> FreshWalk(bc, seed)] :
              bc \in WalkBlockCounts, seed \in Seeds}
    /\ spider_state = LoadSpiderState(spider_file)
    /\ AuxIdle

NextWalk ==
    \/ NextBatchOffset

\* the walk on its own
SpecWalk == InitWalk /\ [][NextWalk]_vars

\* the caller keeps calling
SpecWalkLive == SpecWalk /\ WF_vars(NextBatchOffset)

\* --------------------------------------------------------- load_state
\* load_state(): the three records one after the other, each from its own
\* file; an exception of any of the three leaves load_state without an AppState
LoadState ==
    /\ load_exit = "loading"
    /\ IF \/ LoadCidsRaises(processed_file)
          \/ LoadCidsRaises(errors_file)
          \/ LoadSpiderRaises(spider_file)
       THEN /\ load_exit' = "raised"
            /\ UNCHANGED << processed_cids, error_cids, spider_state >>
       ELSE /\ load_exit' = "returned"
            /\ processed_cids' = LoadCids(processed_file)
            /\ error_cids' = LoadCids(errors_file)
            /\ spider_state' = LoadSpiderState(spider_file)
    /\ UNCHANGED << now, request_times, current_count, mainVars, stats, job, hist >>
    /\ UNCHANGED << fileVars, obsVars, visited, resume_next, sessionVars, probeVars >>
    /\ UNCHANGED << sp_pc, sp_exit, walk, iteration, consecutive_empty_batches,
                    offset, spider_file >>

\* the program starts on whatever the data directory holds
InitLoad ==
    /\ Start(<< >>)
    /\ processed_file \in CidsFiles
    /\ errors_file \in CidsFiles
    /\ spider_file \in SpiderFiles
    /\ processed_cids = {}
    /\ error_cids = {}
    /\ spider_state = NewSpiderState
    /\ committed = {}
    /\ precrash = {}
    /\ resubmitted = {}
    /\ crashes = 0
    /\ wfail = {}
    /\ sp_pc = "idle"
    /\ sp_exit = "none"
    /\ walk = NewSpiderState
    /\ iteration = 0
    /\ consecutive_empty_batches = 0
    /\ offset = None
    /\ load_exit = "loading"
    /\ visited = {}
    /\ resume_next = NoResume
    /\ SessionIdle

NextLoad ==
    \/ LoadState

\* setup_components() and load_state() at program start
SpecLoad == InitLoad /\ [][NextLoad]_vars

\* the main thread and the clock keep running
SpecLive == Spec /\ WF_vars(AcquireLock \/ AcquireTimeoutCheck \/ AcquireWake \/ SleepTick)

\* -------------------------------------------------- process_wallet
\* token.contract is None
NoContract == "none"
Contracts == {NoContract, "KT1"}
TokenIds == {0, 1}
\* a token as the index service returns it; uri is the id of its artifact
WalletTokens == [contract : Contracts, tokenId : TokenIds, uri : CIDS]

\* what mints(), balances(), contract_tokens() return: None after an error,
\* else a list
FetchFailed == [ok |-> FALSE, tokens |-> << >>]
Fetched ==
    {FetchFailed}
    \cup {[ok |-> TRUE, tokens |-> l] :
             l \in UNION {[1..n -> WalletTokens] : n \in 0..MaxFetched}}

\* if wallet_mints: all_tokens.extend(wallet_mints), and so for the other two
Extended(all_tokens, fetched) ==
    IF fetched.ok /\ fetched.tokens # << >> THEN all_tokens \o fetched.tokens
    ELSE all_tokens

\* a faulty variant: the token id alone as the key
KeyByTokenId(token) == << NoContract, token.tokenId >>

\* key = (token.contract.address if token.contract else None, token.tokenId)
Key(token) == << token.contract, token.tokenId >>

RECURSIVE UniqueFrom(_, _)
\* the loop over all_tokens: a token whose key is not in seen is appended
UniqueFrom(tokens, seen) ==
    IF tokens = << >> THEN << >>
    ELSE IF Key(Head(tokens)) \in seen
         THEN UniqueFrom(Tail(tokens), seen)
         ELSE << Head(tokens) >> \o UniqueFrom(Tail(tokens), seen \cup {Key(Head(tokens))})

\* the artifact URIs of a list of tokens
Uris(tokens) == [i \in DOMAIN tokens |-> tokens[i].uri]

\* process_wallet up to the head of process_tokens' loop
ProcessWallet ==
    /\ pc = "wallet"
    /\ LET all_tokens == Extended(Extended(Extended(<< >>, wallet.mints),
                                           wallet.balances), wallet.contract_tokens)
           unique_tokens == UniqueFrom(all_tokens, {})
       IN  /\ wallet' = [wallet EXCEPT !.unique_tokens = unique_tokens, !.calls = @ + 1]
           /\ cids' = ExtractIpfsCids(Uris(unique_tokens))
           /\ stats' = NewStats(Len(unique_tokens))
    /\ idx' = 1
    /\ pc' = "loop"
    /\ UNCHANGED << now, request_times, current_count, start_time, wake, mwrite,
                    job, hist, batch, base >>
    /\ UNCHANGED << fileVars, setVars, obsVars, spiderVars >>
    /\ UNCHANGED << load_exit, visited, resume_next, probeVars >>

\* run_wallet_mode: the state is loaded and the three queries have answered
InitWallet ==
    /\ pc = "wallet"
    /\ \E m \in Fetched, b \in Fetched, c \in Fetched :
         wallet = [mints |-> m, balances |-> b, contract_tokens |-> c,
                   unique_tokens |-> << >>, calls |-> 0]
    /\ batch = 1
    /\ base = 0
    /\ ProbeIdle
    /\ cids = << >>
    /\ stats = NewStats(0)
    /\ idx = 1
    /\ now = 0
    /\ request_times = << >>
    /\ current_count = 0
    /\ start_time = 0
    /\ wake = 0
    /\ mwrite = NoWrite
    /\ job = [i \in Attempts |-> NoJob]
    /\ hist = [i \in Attempts |-> NoHist]
    /\ processed_file = FileMissing
    /\ errors_file = FileMissing
    /\ processed_cids = LoadCids(FileMissing)
    /\ error_cids = LoadCids(FileMissing)
    /\ committed = {}
    /\ precrash = {}
    /\ resubmitted = {}
    /\ crashes = 0
    /\ wfail = {}
    /\ SpiderIdle
    /\ load_exit = "returned"
    /\ visited = {}
    /\ resume_next = NoResume

NextWallet ==
    \/ ProcessWallet

\* one run of process_wallet
SpecWallet == InitWallet /\ [][NextWallet]_vars

\* ------------------------------------------ a RateLimiter on its own
\* the clock runs to two windows past the first record
RateHorizon == 2 * WindowSeconds + 2

\* everything of the process but the main thread's position, a fresh install
Fresh ==
    /\ now = 0
    /\ request_times = << >>
    /\ current_count = 0
    /\ start_time = 0
    /\ wake = 0
    /\ mwrite = NoWrite
    /\ job = [i \in Attempts |-> NoJob]
    /\ hist = [i \in Attempts |-> NoHist]
    /\ cids = << >>
    /\ stats = NewStats(0)
    /\ idx = 1
    /\ processed_file = FileMissing
    /\ errors_file = FileMissing
    /\ processed_cids = LoadCids(FileMissing)
    /\ error_cids = LoadCids(FileMissing)
    /\ committed = {}
    /\ precrash = {}
    /\ resubmitted = {}
    /\ crashes = 0
    /\ wfail = {}
    /\ SpiderIdle
    /\ AuxIdle

\* record_request()
RecordRequestCall ==
    /\ pc = "limiter"
    /\ Len(admissions) < MaxRecords
    /\ request_times' = Record(request_times, now)
    /\ admissions' = Append(admissions, now)
    /\ UNCHANGED << now, current_count, mainVars, job, hist, stats, rate, pages, cli >>
    /\ UNCHANGED << fileVars, setVars, obsVars, spiderVars >>
    /\ UNCHANGED << load_exit, visited, resume_next, sessionVars >>

\* get_current_rate()
GetCurrentRate ==
    /\ pc = "limiter"
    /\ request_times' = Cleanup(request_times, now)
    /\ rate' = [value |-> CurrentRate(request_times, now), at |-> now,
                n |-> Len(admissions)]
    /\ UNCHANGED << now, current_count, mainVars, job, hist, stats, admissions, pages, cli >>
    /\ UNCHANGED << fileVars, setVars, obsVars, spiderVars >>
    /\ UNCHANGED << load_exit, visited, resume_next, sessionVars >>

\* time passes between the calls
Elapse ==
    /\ pc = "limiter"
    /\ admissions # << >>
    /\ now < RateHorizon
    /\ now' = now + 1
    /\ UNCHANGED << request_times, current_count, mainVars, job, hist, stats >>
    /\ UNCHANGED << fileVars, setVars, obsVars, spiderVars, auxVars >>

InitRate ==
    /\ pc = "limiter"
    /\ Fresh

NextRate ==
    \/ RecordRequestCall
    \/ GetCurrentRate
    \/ Elapse

\* record_request() and get_current_rate() called at any times
SpecRate == InitRate /\ [][NextRate]_vars

\* ------------------------------------ process_tokens called again
\* run_spider_mode's loop: the next batch is fetched and handed to
\* process_tokens, which replaces self.stats; the submissions of the earlier
\* calls stay in flight.  The delay between the calls is below the clock's
\* resolution.
NextBatch ==
    /\ pc = "done"
    /\ batch < MaxCalls
    /\ \E tokens \in Batches :
         /\ base + Len(cids) + Len(ExtractIpfsCids(tokens)) <= MaxAttempts
         /\ cids' = ExtractIpfsCids(tokens)
         /\ stats' = NewStats(Len(tokens))
    /\ idx' = 1
    /\ pc' = "loop"
    /\ batch' = batch + 1
    /\ base' = base + Len(cids)
    /\ UNCHANGED << now, request_times, current_count, start_time, wake, mwrite,
                    job, hist, wallet >>
    /\ UNCHANGED << fileVars, setVars, obsVars, spiderVars >>
    /\ UNCHANGED << load_exit, visited, resume_next, probeVars >>

NextBatches ==
    \/ Next
    \/ NextBatch /\ base' + Len(cids') <= MaxBatch

\* process_tokens called up to MaxCalls times by one process, MaxBatch ids in all
SpecBatches == Init /\ [][NextBatches]_vars

\* a run without incident: every write lands, save() never raises, the index
\* reports no id archived, and the completion notifications say success
Calm ==
    /\ wfail = {}
    /\ \A i \in Attempts : job[i].status \in {"none", "success"} /\ ~hist[i].raised

\* the run without incident, its completion notifications arriving while the
\* main thread waits for a slot
NextDelay ==
    \/ LoopSkip
    \/ LoopProcess
    \/ LoopDone
    \/ WaitIfNeeded
    \/ RateWake
    \/ RecordRequest
    \/ SleepTick
    \/ MainDump /\ Calm'
    \/ AcquireLock
    \/ AcquireTimeoutCheck /\ Calm'
    \/ AcquireWake
    \/ Submit /\ Calm'
    \/ \E i \in Attempts : Waiting /\ Notify(i) /\ Calm'
    \/ \E i \in Attempts : CallbackFinish(i) /\ Calm'
    \/ NextBatch

\* process_tokens called up to MaxCalls times, MaxAttempts ids in all
SpecDelay == Init /\ [][NextDelay]_vars

\* ------------------------------------------- a callback that raises
\* a faulty variant: the release after the callback instead of in a finally
ReleasedUnlessRaised(raises) == ~raises

\* on_save_end's finally: the slot is released whether on_complete raised or not
ReleasedAfter(raises) == TRUE

\* on_complete raises on the completion thread (json.dump meeting a string it
\* cannot encode is not among the exceptions _save_cids_to_file catches): the
\* file stays as the open left it, the counter is not reached, the finally
\* of on_save_end runs and the exception leaves on_save_end
CallbackRaises(i) ==
    /\ job[i].st = "writing"
    /\ current_count' = IF ReleasedAfter(TRUE) THEN Release(current_count)
                        ELSE current_count
    /\ hist' = IF ReleasedAfter(TRUE)
               THEN [hist EXCEPT ![i].released = @ + 1, ![i].cb_raised = TRUE]
               ELSE [hist EXCEPT ![i].cb_raised = TRUE]
    /\ job' = [job EXCEPT ![i].st = "done", ![i].status = "none"]
    /\ UNCHANGED << now, request_times, mainVars, stats >>
    /\ UNCHANGED << fileVars, setVars, obsVars, spiderVars, auxVars >>

NextRelease ==
    \/ Next
    \/ \E i \in Attempts : CallbackRaises(i)

\* one run of process_tokens with callbacks that may raise; the main thread and
\* the clock keep running, the archive service answers every call of save() and
\* delivers the notification of every job, the completion threads run
SpecRelease ==
    /\ Init
    /\ [][NextRelease]_vars
    /\ WF_vars(AcquireLock \/ AcquireTimeoutCheck \/ AcquireWake \/ SleepTick)
    /\ WF_vars(Submit)
    /\ \A i \in Attempts : WF_vars(Notify(i))
    /\ \A i \in Attempts : WF_vars(CallbackFinish(i) \/ CallbackRaises(i))

\* ------------------------------------------- an interrupt from outside
\* KeyboardInterrupt is raised on the main thread wherever it is inside
\* process_tokens.  No clause on the way names it (archive_cid has except
\* Exception, a with statement closes the file it opened): it leaves
\* process_tokens for the except KeyboardInterrupt of run_spider_mode, which
\* logs and returns.  The completion threads are not touched.
KeyboardInterrupt ==
    /\ pc \in {"loop", "precheck", "rate_sleep", "record", "acquire_lock",
               "acquire_timeout", "acquire_sleep", "submit", "dump"}
    /\ pc' = "interrupted"
    /\ mwrite' = NoWrite
    /\ UNCHANGED << now, request_times, current_count, cids, idx, start_time, wake,
                    job, hist, stats >>
    /\ UNCHANGED << fileVars, setVars, obsVars, spiderVars, auxVars >>

NextInterrupt ==
    \/ Next
    \/ KeyboardInterrupt

\* one run of process_tokens that an interrupt may end
SpecInterrupt == Init /\ [][NextInterrupt]_vars

\* ------------------------------------------ _fetch_paginated_tokens
\* a process as Fresh describes it, its pagination and its command line left open
FreshProcess ==
    /\ now = 0
    /\ request_times = << >>
    /\ current_count = 0
    /\ start_time = 0
    /\ wake = 0
    /\ mwrite = NoWrite
    /\ job = [i \in Attempts |-> NoJob]
    /\ hist = [i \in Attempts |-> NoHist]
    /\ cids = << >>
    /\ stats = NewStats(0)
    /\ idx = 1
    /\ committed = {}
    /\ precrash = {}
    /\ resubmitted = {}
    /\ crashes = 0
    /\ wfail = {}
    /\ sp_exit = "none"
    /\ walk = NewSpiderState
    /\ iteration = 0
    /\ consecutive_empty_batches = 0
    /\ offset = None
    /\ visited = {}
    /\ resume_next = NoResume
    /\ wallet = NoWallet
    /\ batch = 1
    /\ base = 0
    /\ rate = NoRate
    /\ admissions = << >>

\* a faulty variant: the whole remainder asked for in one request
BatchLimitUncapped(remaining) == remaining

\* batch_limit = min(API_MAX, remaining)
BatchLimit(remaining) == IF API_MAX < remaining THEN API_MAX ELSE remaining

\* the limits a caller passes: one record, a page less one, a page, a page and
\* one, and whole pages up to MaxPages
Limits == {1, API_MAX - 1, API_MAX, API_MAX + 1} \cup {k * API_MAX : k \in 2..MaxPages}

PageOffsets == {0, 7}

\* what a request for n records may come to.  error: requests.get,
\* raise_for_status or resp.json() raises.  other: JSON that is no list.
\* list: a list of len records, the service returning no more than it was asked
\* for, of which _parse_tokens_list keeps parsed (it drops the malformed ones).
Responses(n) ==
    {[kind |-> k, len |-> 0, parsed |-> 0] : k \in {"error", "other"}}
    \cup UNION {{[kind |-> "list", len |-> l, parsed |-> q] : q \in {0, l}} :
                   l \in {0, n - 1, n}}

\* one pass of the while loop on the locals p, the request answered by r, up to
\* the next test of remaining > 0 or the return
AfterPage(p, r) ==
    LET asked == [p EXCEPT !.batch_limit = BatchLimit(p.remaining),
                           !.requests = @ + 1, !.last = r.kind, !.last_len = r.len]
    IN  IF r.kind = "error"
        THEN \* except Exception: return None
             [asked EXCEPT !.pc = "returned", !.returned = "None"]
        ELSE IF r.kind = "other" \/ r.parsed = 0
        THEN \* if not tokens: break
             [asked EXCEPT !.pc = "returned", !.returned = "list"]
        ELSE IF r.len < asked.batch_limit
        THEN \* fewer results than requested: break
             [asked EXCEPT !.results = @ + r.parsed, !.pc = "returned",
                           !.returned = "list"]
        ELSE [asked EXCEPT !.results = @ + r.parsed,
                           !.current_offset = @ + r.len,
                           !.remaining = @ - r.len,
                           !.pc = IF p.remaining - r.len > 0 THEN "loop" ELSE "returned",
                           !.returned = IF p.remaining - r.len > 0 THEN "none" ELSE "list"]

\* the while loop of _fetch_paginated_tokens, one pass
FetchPage ==
    /\ pages.pc = "loop"
    /\ \E r \in Responses(BatchLimit(pages.remaining)) : pages' = AfterPage(pages, r)
    /\ UNCHANGED << now, request_times, current_count, mainVars, job, hist, stats >>
    /\ UNCHANGED << fileVars, setVars, obsVars, spiderVars >>
    /\ UNCHANGED << load_exit, visited, resume_next, sessionVars, rate, admissions, cli >>

\* _fetch_paginated_tokens(base_url, limit, offset) has set its locals
InitPages ==
    /\ pc = "fetching"
    /\ FreshProcess
    /\ sp_pc = "idle"
    /\ processed_file = FileMissing
    /\ errors_file = FileMissing
    /\ spider_file = SpiderFileMissing
    /\ processed_cids = LoadCids(FileMissing)
    /\ error_cids = LoadCids(FileMissing)
    /\ spider_state = LoadSpiderState(SpiderFileMissing)
    /\ load_exit = "returned"
    /\ cli = NoCli
    /\ \E limit \in Limits, first \in PageOffsets :
         pages = [NoPages EXCEPT !.pc = "loop", !.limit = limit, !.remaining = limit,
                                 !.current_offset = first]

NextPages ==
    \/ FetchPage

\* one call of _fetch_paginated_tokens, every request answered or failing
SpecPages == InitPages /\ [][NextPages]_vars /\ WF_vars(FetchPage)

\* ------------------------------------- process_tokens run to its return
\* a step of the main thread inside process_tokens
MainStep ==
    \/ LoopSkip
    \/ LoopProcess
    \/ LoopDone
    \/ AlreadyArchived
    \/ WaitIfNeeded
    \/ RateWake
    \/ RecordRequest
    \/ MainDump
    \/ AcquireLock
    \/ AcquireTimeoutCheck
    \/ AcquireWake
    \/ Submit

\* one run of process_tokens: the main thread keeps running, the index check
\* and save() return, the clock advances; the completion threads may never run
SpecReturns == Spec /\ WF_vars(MainStep \/ SleepTick)

\* ------------------------------------ run_spider_mode through a cycle
NextCycle ==
    \/ SpiderStart
    \/ GetNextBatchOffsetWithin(MaxCycleCalls)
    \/ FetchEmpty
    \/ FetchTokens
    \/ ProcessReturns

\* the continuous exploration mode left to run, MaxCycleCalls iterations long
SpecCycle == InitSpider /\ [][NextCycle]_vars

\* ------------------------------------------- an index check that fails
\* a faulty variant: an error of the check taken for a hit
IsAlreadyArchivedOnError(answer) == answer # "absent"

\* is_already_archived: wayback.indexed(url) answers indexed or absent, or
\* raises; except Exception logs and returns False
IsAlreadyArchived(answer) == answer = "indexed"

\* wayback.indexed raises inside is_already_archived, and
\* _archive_cid_with_rate_limit goes on with what is_already_archived returned
CheckFails ==
    /\ pc = "precheck"
    /\ ~hist[Cur].check_failed
    /\ LET h == [hist EXCEPT ![Cur].check_failed = TRUE]
       IN  IF IsAlreadyArchived("raise")
           THEN AlreadyArchivedOf(request_times, h)
           ELSE WaitIfNeededAfter(h)

NextCheck ==
    \/ Next
    \/ CheckFails

\* one run of process_tokens with index checks that may fail
SpecCheck == Init /\ [][NextCheck]_vars

\* ---------------------------------------------------------- main()
\* a call binds when it passes as many arguments as the constructor has
\* parameters without default (self aside); otherwise Python raises TypeError
Binds(given, required) == given = required

\* main(): validate_arguments, then the mode by args.wallet
Main ==
    /\ cli.pc = "main"
    /\ cli' = IF ~cli.valid THEN [cli EXCEPT !.pc = "exited", !.exit = "error"]
              ELSE IF cli.wallet THEN [cli EXCEPT !.pc = "wallet_setup"]
              ELSE [cli EXCEPT !.pc = "spider_setup"]
    /\ UNCHANGED << now, request_times, current_count, mainVars, job, hist, stats >>
    /\ UNCHANGED << fileVars, setVars, obsVars, spiderVars >>
    /\ UNCHANGED << load_exit, visited, resume_next, sessionVars, rate, admissions, pages >>

\* setup_components(): sys.exit(1) without credentials, else the components
SetupComponents ==
    /\ cli.pc \in {"wallet_setup", "spider_setup"}
    /\ cli' = IF ~cli.credentials THEN [cli EXCEPT !.pc = "exited", !.exit = "error"]
              ELSE IF cli.pc = "wallet_setup" THEN [cli EXCEPT !.pc = "wallet_load"]
              ELSE [cli EXCEPT !.pc = "spider_load"]
    /\ UNCHANGED << now, request_times, current_count, mainVars, job, hist, stats >>
    /\ UNCHANGED << fileVars, setVars, obsVars, spiderVars >>
    /\ UNCHANGED << load_exit, visited, resume_next, sessionVars, rate, admissions, pages >>

\* load_state() raised: except Exception logs and calls sys.exit(1)
LoadRaised ==
    /\ cli.pc \in {"wallet_load", "spider_load"}
    /\ load_exit = "raised"
    /\ cli' = [cli EXCEPT !.pc = "exited", !.exit = "error"]
    /\ UNCHANGED << now, request_times, current_count, mainVars, job, hist, stats >>
    /\ UNCHANGED << fileVars, setVars, obsVars, spiderVars >>
    /\ UNCHANGED << load_exit, visited, resume_next, sessionVars, rate, admissions, pages >>

\* run_spider_mode: SpiderProcessor(processor), then run_spider_mode(state);
\* the TypeError of a call that does not bind is caught by except Exception,
\* which logs and calls sys.exit(1)
CreateSpiderProcessor ==
    /\ cli.pc = "spider_load"
    /\ load_exit = "returned"
    /\ IF Binds(SpiderProcessorArgs, SpiderProcessorParams)
       THEN /\ cli' = [cli EXCEPT !.pc = "spider_loop"]
            /\ sp_pc' = "start"
       ELSE /\ cli' = [cli EXCEPT !.pc = "exited", !.exit = "error"]
            /\ sp_pc' = sp_pc
    /\ UNCHANGED << sp_exit, walk, iteration, consecutive_empty_batches, offset,
                    spider_state, spider_file >>
    /\ UNCHANGED << now, request_times, current_count, mainVars, job, hist, stats >>
    /\ UNCHANGED << fileVars, setVars, obsVars >>
    /\ UNCHANGED << load_exit, visited, resume_next, sessionVars, rate, admissions, pages >>

\* run_wallet_mode: WalletProcessor(processor), then process_wallet
CreateWalletProcessor ==
    /\ cli.pc = "wallet_load"
    /\ load_exit = "returned"
    /\ cli' = IF Binds(WalletProcessorArgs, WalletProcessorParams)
              THEN [cli EXCEPT !.pc = "wallet_run"]
              ELSE [cli EXCEPT !.pc = "exited", !.exit = "error"]
    /\ UNCHANGED << now, request_times, current_count, mainVars, job, hist, stats >>
    /\ UNCHANGED << fileVars, setVars, obsVars, spiderVars >>
    /\ UNCHANGED << load_exit, visited, resume_next, sessionVars, rate, admissions, pages >>

\* the program is started: any arguments, credentials set or not, whatever the
\* data directory holds
InitMain ==
    /\ pc = "idle"
    /\ FreshProcess
    /\ sp_pc = "idle"
    /\ processed_file \in CidsFiles
    /\ errors_file \in CidsFiles
    /\ spider_file \in SpiderFiles
    /\ processed_cids = {}
    /\ error_cids = {}
    /\ spider_state = NewSpiderState
    /\ load_exit = "loading"
    /\ pages = NoPages
    /\ \E w \in BOOLEAN, c \in BOOLEAN, v \in BOOLEAN :
         cli = [pc |-> "main", wallet |-> w, credentials |-> c, valid |-> v,
                exit |-> "none"]

NextMain ==
    \/ Main
    \/ SetupComponents
    \/ cli.pc \in {"wallet_load", "spider_load"} /\ LoadState
    \/ LoadRaised
    \/ CreateSpiderProcessor
    \/ CreateWalletProcessor

\* main() up to the call of process_wallet or of SpiderProcessor.run_spider_mode
SpecMain == InitMain /\ [][NextMain]_vars

\* ------------------------------------------------------------ claims
\* attempts that hold a slot for a submission that is not over: save() is
\* being called, or its job's completion has not been fully handled
Outstanding ==
    {i \in Attempts : (pc = "submit" /\ Cur = i) \/ job[i].st \in {"pending", "writing"}}

\* archive_cid was called for attempt i, has returned, and no completion is due
Finished(i) ==
    /\ hist[i].recorded > 0
    /\ i < Cur
    /\ job[i].st \in {"none", "done"}

\* C1: under every interleaving of the main thread's acquire() and the
\* completion threads' release(), the submissions that hold a slot and are not
\* over never number more than max_concurrent
C1_OutstandingBounded == Cardinality(Outstanding) <= MaxConcurrent

C1_Witness ==
    /\ Cardinality(Outstanding) = MaxConcurrent
    /\ pc = "acquire_sleep"
    /\ \E i \in Attempts : job[i].st = "writing"

\* C2: wait_if_needed() preceding every record_request(), at every instant at
\* most max_requests recorded admissions are at most 60 seconds old, one
\* exactly 60 seconds old included
C2_WindowBounded ==
    Cardinality({k \in DOMAIN request_times :
                    request_times[k] >= now - WindowSeconds}) <= MaxRequests

\* C3: no id that was persisted as processed before the kill is submitted to the
\* archive service after the restart
C3_NoResubmission == resubmitted = {}

\* C4: every archive_cid call that is over has invoked the caller's callback
\* exactly once
C4_CallbackOnce == \A i \in Attempts : Finished(i) => hist[i].callbacks = 1

\* C5: run_spider_mode returns only on KeyboardInterrupt; any other exception
\* raised inside an iteration leaves the loop running
C5_OnlyInterruptStops == sp_pc = "returned" => sp_exit = "interrupt"

\* C6: after a kill at any instant, the processed set load_state() returns holds
\* every id whose save had completed before the kill
C6_CommittedSurvives == crashes > 0 => precrash \subseteq processed_cids

C8_AcquireTimeout ==
    /\ [](\A i \in Attempts :
            hist[i].timedout => /\ hist[i].elapsed >= TimeoutSeconds
                                /\ ~hist[i].freed)
    /\ (Waiting ~> ~Waiting)

C8_Witness ==
    \E i \in Attempts :
        /\ hist[i].timedout
        /\ hist[i].elapsed > TimeoutSeconds
        /\ current_count = MaxConcurrent
        /\ Finished(i)

\* C9: the step that finds the id already archived marks it processed and
\* counts it, and leaves the rate limiter, the slot counter and the
\* submissions as they were
C9_AlreadyArchivedFrame ==
    [][(pc = "precheck" /\ stats'.already_archived = stats.already_archived + 1)
          => /\ cids[idx] \in processed_cids'
             /\ request_times' = request_times
             /\ current_count' = current_count
             /\ job' = job
             /\ hist' = hist]_vars

C9_Witness ==
    /\ stats.already_archived > 0
    /\ request_times # << >>
    /\ current_count > 0

\* C10: an attempt whose slot acquisition timed out has no rate-limit
\* admission recorded for it
C10_NoAdmissionOnTimeout ==
    \A i \in Attempts : hist[i].timedout => hist[i].recorded = 0

\* C11: load_state() never raises, whatever the three files hold: a missing or
\* unusable file gives that record's default and the other records are loaded
\* from their own files
C11_LoadNeverRaises ==
    /\ load_exit # "raised"
    /\ load_exit = "returned" =>
          /\ processed_cids = LoadCids(processed_file)
          /\ error_cids = LoadCids(errors_file)
          /\ spider_state = LoadSpiderState(spider_file)

\* every submission of the batch is over and process_tokens has returned
Quiet == pc = "done" /\ \A i \in Attempts : job[i].st \in {"none", "done"}

\* C12: when the write of a save fails, nothing is raised, the id stays in its
\* in-memory set for the rest of the run, and processing goes on
C12_WriteFailureTolerated ==
    /\ pc # "raised"
    /\ \A i \in wfail : cids[i] \in processed_cids \cup error_cids

C12_Witness ==
    /\ pc = "done"
    /\ stats.skipped_cids > 0
    /\ \E i \in wfail :
         /\ cids[i] \in processed_cids
         /\ cids[i] \notin LoadCids(processed_file)

\* C13: saving an id that is already in the set leaves the set as it is, every
\* step leaves the set unchanged or adds one id, and the persisted list holds
\* each id once, sorted
C13_SaveIdempotent ==
    /\ [][processed_cids' \in {processed_cids} \cup {processed_cids \cup {c} : c \in CIDS}]_vars
    /\ [](processed_file.kind = "list" =>
             /\ processed_file.data = Sorted(LoadCids(processed_file))
             /\ LoadCids(processed_file) \subseteq processed_cids)

C13_Witness ==
    /\ cids = << 1, 1 >>
    /\ stats.already_archived = 1
    /\ stats.successful_archives = 1
    /\ wfail = {}
    /\ processed_cids = {1}
    /\ processed_file = FileOf({1})

\* C14: the stats process_tokens returned account for every id of the batch,
\* once its submissions are over: skipped + processed = the ids extracted, and
\* success + failed + already_archived = processed
C14_StatsAccount ==
    Quiet =>
        /\ stats.total_tokens >= Len(cids)
        /\ stats.skipped_cids + stats.processed_cids = Len(cids)
        /\ stats.successful_archives + stats.failed_archives + stats.already_archived
              = stats.processed_cids

\* C15: whatever the interleaving of the main thread's and the completion
\* threads' saves, once all are over and no write failed, each persisted list
\* is the in-memory set
C15_SavesSerialized ==
    (Quiet /\ wfail = {}) =>
        /\ LoadCids(processed_file) = processed_cids
        /\ LoadCids(errors_file) = error_cids

\* C16: every offset _get_next_batch_offset returns lies in [0, size of the
\* token space), the fallback of a failed initialization included (its token
\* space is the hardcoded estimate)
C16_OffsetInRange ==
    offset # None =>
        /\ 0 <= offset
        /\ offset < (IF walk.current_position = None
                     THEN TokenSpaceCap ELSE walk.total_token_space)

\* every position of the token space has been returned
Covered == \A x \in 0..(walk.total_token_space - 1) : x \in visited

BidirectionalOffset(s, k, b, n) ==
    LET t == IF k % 2 = 0 THEN s + (k \div 2) * b ELSE s - ((k - 1) \div 2) * b
        u == IF t < 0 THEN n + t ELSE t
    IN  IF u >= n THEN u - n ELSE u

\* C17: from a fresh cursor the successive offsets are s, s+b, s-b, s+2b,
\* s-2b, ..., the direction alternating on every call (before any jump, in a
\* space that holds the steps)
C17_BidirectionalWalk ==
    (sp_pc = "fetch" /\ iteration < MaxEmptyBatches
        /\ walk.total_token_space > 3 * BatchSize) =>
        offset = BidirectionalOffset(walk.start_position, iteration, BatchSize,
                                     walk.total_token_space)

\* a position of the middle half of a space of n
InMiddleBand(x, n) == 4 * x >= n /\ 4 * x < 3 * n

\* C19: exactly at the fifth empty batch in a row the engine restarts the walk
\* from a fresh position of the middle-50% band (the walk's origin and count
\* reset) and persists the cursor; any other fetch leaves the cursor alone
C19_SelfHealing ==
    [][(sp_pc = "fetch" /\ sp_pc' \in {"iterate", "process"}) =>
          IF sp_pc' = "iterate" /\ consecutive_empty_batches + 1 >= MaxEmptyBatches
          THEN /\ InMiddleBand(walk'.current_position, walk'.total_token_space)
               /\ walk'.start_position = walk'.current_position
               /\ walk'.tokens_visited = 0
               /\ spider_state' = walk'
               /\ consecutive_empty_batches' = 0
          ELSE walk' = walk]_vars

Contribution(fetched) == IF fetched.ok THEN fetched.tokens ELSE << >>

\* the three lists of the wallet, one after the other
Concatenated ==
    Contribution(wallet.mints) \o Contribution(wallet.balances)
        \o Contribution(wallet.contract_tokens)

\* the positions of Concatenated whose (contract, token id) pair occurs at no
\* earlier position
FirstSeen ==
    {i \in DOMAIN Concatenated :
        \A j \in 1..(i - 1) :
            \/ Concatenated[j].contract # Concatenated[i].contract
            \/ Concatenated[j].tokenId # Concatenated[i].tokenId}

\* C21: process_wallet hands to process_tokens, in one call, the concatenation
\* of the minted, held and contract lists (a failed query contributing nothing)
\* without the later tokens of an already seen (contract, token id) pair, the
\* remaining tokens in their first-seen order
C21_WalletDeduplicated ==
    /\ wallet.calls <= 1
    /\ pc # "wallet" =>
         /\ wallet.calls = 1
         /\ Len(wallet.unique_tokens) = Cardinality(FirstSeen)
         /\ \A i \in FirstSeen :
              wallet.unique_tokens[Cardinality({j \in FirstSeen : j < i}) + 1]
                 = Concatenated[i]
         /\ cids = ExtractIpfsCids(Uris(wallet.unique_tokens))
         /\ stats.total_tokens = Len(wallet.unique_tokens)

C21_Witness ==
    /\ pc = "loop"
    /\ wallet.calls = 1
    /\ Len(Concatenated) = 3
    /\ Len(wallet.unique_tokens) = 2
    /\ Concatenated[3].contract = Concatenated[1].contract
    /\ Concatenated[3].tokenId = Concatenated[1].tokenId
    /\ Concatenated[3].uri # Concatenated[1].uri
    /\ cids = << Concatenated[1].uri, Concatenated[2].uri >>

\* C22: when save() raises, archive_cid does not: the slot is released, the
\* callback gets one failed result, the id is in the errored set, and the loop
\* of process_tokens goes on to the next id
C22_SubmissionErrorContained ==
    /\ pc # "raised"
    /\ \A i \in Attempts :
         hist[i].raised =>
            /\ hist[i].released = 1
            /\ hist[i].callbacks = 1
            /\ cids[i] \in error_cids
            /\ job[i].st = "none"
            /\ (pc = "dump" /\ Cur = i) \/ Cur > i

C22_Witness ==
    /\ pc = "done"
    /\ hist[1].raised
    /\ stats.failed_archives = 1
    /\ hist[2].saves = 1
    /\ job[2].st = "pending"
    /\ current_count = 1
    /\ LoadCids(errors_file) = {cids[1]}

\* the records, among the first n, made in the 60 seconds up to time t
Trailing(n, t) ==
    {k \in 1..n : admissions[k] >= t - WindowSeconds /\ admissions[k] <= t}

\* C23: whatever the times of the record_request() calls, get_current_rate()
\* returns no more than the number of records of the trailing 60 seconds, and
\* the call changes nothing but request_times, from whose front it only drops
\* timestamps strictly older than 60 seconds
C23_CurrentRate ==
    /\ [](rate.value <= Cardinality(Trailing(rate.n, rate.at)))
    /\ [][rate' # rate =>
            /\ now' = now
            /\ admissions' = admissions
            /\ \E k \in 0..Len(request_times) :
                 /\ request_times' = SubSeq(request_times, k + 1, Len(request_times))
                 /\ \A j \in 1..k : request_times[j] < now - WindowSeconds]_vars

C23_Witness ==
    /\ rate.n = 2
    /\ rate.value = 1
    /\ admissions[1] < rate.at - WindowSeconds
    /\ admissions[2] = rate.at - WindowSeconds
    /\ request_times = << admissions[2] >>

\* the attempts whose wayback.save call fell in the 60 seconds up to time t
SavedWithin(t) ==
    {j \in Attempts : /\ hist[j].saves > 0
                      /\ hist[j].saved_at > t - WindowSeconds
                      /\ hist[j].saved_at <= t}

\* C24: in every window of 60 seconds at most max_requests calls of
\* wayback.save are made, however long acquire() held a submission back after
\* its admission by the rate limiter
C24_SubmissionRateBounded ==
    \A i \in Attempts :
        hist[i].saves > 0 => Cardinality(SavedWithin(hist[i].saved_at)) <= MaxRequests

\* C25: the completion of a job adds its id to the processed set when the
\* notified status is success or pending, and to the errored set for error and
\* any other status, the other set left alone; an id in the processed set is
\* not handed to the archiver again
C25_CompletionClassified ==
    /\ [][\A i \in Attempts :
            (job[i].st = "pending" /\ job'[i].st = "writing") =>
               IF job'[i].status \in {"success", "pending"}
               THEN /\ job[i].cid \in processed_cids'
                    /\ job'[i].w = "processed"
                    /\ error_cids' = error_cids
               ELSE /\ job'[i].status \in {"error", "other"}
                    /\ job[i].cid \in error_cids'
                    /\ job'[i].w = "errors"
                    /\ processed_cids' = processed_cids]_vars
    /\ [][(pc = "loop" /\ pc' = "precheck") => cids[idx] \notin processed_cids]_vars

C25_Witness ==
    /\ job[1].st = "writing"
    /\ job[1].status = "pending"
    /\ job[1].cid \in processed_cids
    /\ job[1].cid \notin error_cids
    /\ cids = << 1, 1 >>
    /\ stats.skipped_cids = 1
    /\ hist[2].recorded = 0

\* C26: the archive service answering every submission and delivering every
\* job's notification, a slot that was acquired is eventually released, also
\* when the callback raises
C26_SlotEventuallyReleased ==
    \A i \in Attempts : (hist[i].acquired = 1) ~> (hist[i].released = 1)

C26_Witness ==
    /\ hist[1].cb_raised
    /\ hist[1].released = 1
    /\ job[1].st = "done"
    /\ stats.successful_archives + stats.failed_archives = 0
    /\ hist[2].acquired = 1
    /\ pc = "submit"

\* the process was killed while a batch was in progress, has been started
\* again, and its first call of _get_next_batch_offset has returned
ResumedMidBatch ==
    /\ crashes > 0
    /\ resume_next.at \in {"fetch", "process"}
    /\ sp_pc = "fetch"
    /\ iteration = 1

\* C27: after a kill at any point of a batch, the first offset of the process
\* started again is the position the killed process would have tried next, not
\* the offset that was in progress
C27_ResumeAtNextUntried ==
    ResumedMidBatch =>
        /\ offset = resume_next.next
        /\ offset # resume_next.last

\* the wraparound of a target in a space of max_tokens: a negative target has
\* max_tokens added, a target of max_tokens or more has max_tokens subtracted
\* once (10 - 1 * 100 in a space of 1000 gives 910)
WrappedTarget(target, max_tokens) ==
    LET u == IF target < 0 THEN max_tokens + target ELSE target
    IN  IF u >= max_tokens THEN u - max_tokens ELSE u

\* C28: the first negative step of a walk whose seed is less than one batch
\* size above 0 returns max_tokens + (seed - batch_size), the offset wrapped
\* from below (in a space that holds the steps)
C28_NegativeWraparound ==
    (/\ sp_pc = "fetch"
     /\ iteration = 3
     /\ walk.total_token_space > 3 * BatchSize
     /\ walk.start_position - 1 * BatchSize < 0) =>
        /\ offset = WrappedTarget(walk.start_position - 1 * BatchSize,
                                  walk.total_token_space)
        /\ offset = walk.total_token_space + walk.start_position - BatchSize

\* C29: the loop of process_tokens skips the id it is at exactly when the id is
\* in the processed set; any other id, one in the errored set included, is
\* counted and handed to the archiver, and a successful result puts it into the
\* processed set
C29_SkipOnlyProcessed ==
    /\ [][(pc = "loop" /\ idx <= Len(cids) /\ (pc' # pc \/ idx' # idx)) =>
            IF cids[idx] \in processed_cids
            THEN /\ pc' = "loop" /\ idx' = idx + 1
                 /\ stats'.skipped_cids = stats.skipped_cids + 1
                 /\ hist' = hist
            ELSE /\ pc' = "precheck" /\ idx' = idx
                 /\ stats'.processed_cids = stats.processed_cids + 1
                 /\ stats'.skipped_cids = stats.skipped_cids]_vars
    /\ [](\A i \in Attempts :
            (job[i].st = "done" /\ job[i].w = "processed") => job[i].cid \in processed_cids)

C29_Witness ==
    /\ cids = << 1, 1 >>
    /\ hist[1].raised
    /\ error_cids = {1}
    /\ hist[2].saves = 1
    /\ job[2].st = "done"
    /\ job[2].w = "processed"
    /\ processed_cids = {1}
    /\ stats.skipped_cids = 0

\* C30: the callback of a submission made in an earlier process_tokens call
\* leaves the counters of the call under way as they are, whenever its
\* notification arrives
C30_StatsPerCall ==
    [][\A i \in Attempts :
          (/\ job[i].st = "writing"
           /\ job'[i].st = "done"
           /\ job[i].batch < batch) => stats' = stats]_vars

\* C31: an interrupt ends the loop between submissions only: once it has
\* ended the loop, no attempt holds a slot for which save() was never called
C31_InterruptBetweenSubmissions ==
    pc = "interrupted" =>
        \A i \in Attempts :
            (hist[i].acquired = 1 /\ hist[i].released = 0) => hist[i].saves = 1

C33_DuplicateSubmittedOnce ==
    \A i, j \in Attempts :
        (i < j /\ hist[i].saves > 0 /\ hist[j].saves > 0) => cids[i] # cids[j]

\* C34: process_tokens returns (the clock running up to its horizon): the
\* sleep of wait_if_needed ends within the 60 seconds of the window, acquire()
\* is left at most one poll after its 120 seconds, and no step of a completion
\* thread is needed for the main thread to go on
C34_ProcessTokensReturns ==
    /\ <>(pc = "done" \/ now = MaxTime)
    /\ [](pc = "rate_sleep" =>
            /\ wake - now <= WindowSeconds
            /\ now <= wake + MaxOversleep)
    /\ [](Waiting => now - start_time <= TimeoutSeconds + PollSeconds + MaxOversleep)
    /\ [](pc # "done" => ENABLED (MainStep \/ SleepTick))

C34_Witness ==
    /\ pc = "done"
    /\ now < MaxTime
    /\ Len(cids) = 2
    /\ now - hist[1].saved_at = WindowSeconds + TimeoutSeconds + PollSeconds
    /\ hist[2].timedout
    /\ job[1].st = "pending"

\* C35: the call of _get_next_batch_offset that declares a full coverage cycle
\* (the count reset, the next prime step taken) comes only when every position
\* of the token space has been returned, jumps included
C35_CycleMeansCoverage ==
    [][(sp_pc = "iterate" /\ sp_pc' = "fetch" /\ walk'.tokens_visited = 0) =>
          \A x \in 0..(walk.total_token_space - 1) : x \in visited']_vars

\* C36: whenever _get_next_batch_offset has returned and its write of the
\* cursor landed, the cursor on disk is the walk as the engine holds it in
\* memory: position, start, step size, token space and visit count
C36_CursorMatchesWalk ==
    (/\ offset # None
     /\ walk.current_position # None
     /\ spider_file.kind = "record"
     /\ spider_file.data = spider_state) =>
        /\ spider_file.data.current_position = walk.current_position
        /\ spider_file.data.start_position = walk.start_position
        /\ spider_file.data.step_size = walk.step_size
        /\ spider_file.data.total_token_space = walk.total_token_space
        /\ spider_file.data.tokens_visited = walk.tokens_visited

\* C37: in every state of process_tokens the skipped and the processed ids
\* together are the extracted ids the loop has taken up so far, never more than
\* total_tokens; a token without an ipfs:// artifact URI counts in total_tokens
\* and nowhere else
C37_CountersTrackLoop ==
    /\ stats.skipped_cids + stats.processed_cids
          = (IF pc \in {"loop", "done"} THEN idx - 1 ELSE idx)
    /\ stats.skipped_cids + stats.processed_cids <= Len(cids)
    /\ Len(cids) <= stats.total_tokens
    /\ \A i \in DOMAIN cids : cids[i] # NoArtifact

C37_Witness ==
    /\ pc = "done"
    /\ stats.total_tokens = 2
    /\ Len(cids) = 1
    /\ stats.processed_cids = 1
    /\ stats.skipped_cids = 0
    /\ stats.successful_archives = 1

\* C38: an id whose index check failed is not marked processed or counted as
\* already archived by the check; it goes through the rate limiter and
\* acquire(), and unless acquire() times out it is handed to wayback.save
C38_FailedCheckMeansSubmit ==
    /\ [][(pc = "precheck" /\ hist'[Cur].check_failed /\ ~hist[Cur].check_failed) =>
             /\ processed_cids' = processed_cids
             /\ stats' = stats
             /\ pc' \in {"rate_sleep", "record"}]_vars
    /\ [](\A i \in Attempts :
            (hist[i].check_failed /\ (i < Cur \/ pc = "done")) =>
               /\ hist[i].recorded = 1
               /\ hist[i].saves = 1 \/ hist[i].timedout
               /\ hist[i].acquired = hist[i].saves)

C38_Witness ==
    /\ hist[1].check_failed
    /\ hist[1].recorded = 1
    /\ hist[1].saves = 1
    /\ job[1].st = "pending"
    /\ stats.already_archived = 0
    /\ processed_cids = {}
    /\ pc = "done"

\* C39: during a run no step takes an id out of the in-memory processed set or
\* errored set, a failed write and a retry that succeeds included, and the
\* step of the loop that asks is_processed leaves both sets and both files as
\* they are
C39_SetsOnlyGrow ==
    /\ [][/\ processed_cids \subseteq processed_cids'
          /\ error_cids \subseteq error_cids']_vars
    /\ [][(pc = "loop" /\ (pc' # pc \/ idx' # idx)) =>
             /\ processed_cids' = processed_cids
             /\ error_cids' = error_cids
             /\ processed_file' = processed_file
             /\ errors_file' = errors_file]_vars

C39_Witness ==
    /\ pc = "done"
    /\ cids = << 1, 1 >>
    /\ 1 \in wfail
    /\ hist[1].raised
    /\ error_cids = {1}
    /\ processed_cids = {1}
    /\ LoadCids(errors_file) = {}
    /\ job[2].st = "done"
    /\ job[2].w = "processed"

\* C40: started without a wallet address, with valid arguments and
\* credentials, and load_state() returning, the program does not end in the
\* error exit
C40_SpiderModeStarts ==
    (~cli.wallet /\ cli.valid /\ cli.credentials /\ load_exit # "raised") =>
        cli.exit # "error"

====
